---- MODULE Spec2Model ----
(***************************************************************************)
(* TeleLink customer analytics backend (src/back_end.py): the startup     *)
(* load of the two model handles, the request boundary (CustomerData),    *)
(* the /predict and /batch-predict handlers, /online and /health, and the *)
(* decision ladders (risk tier, recommendation, confidence).              *)
(*                                                                         *)
(* Churn probabilities are IEEE-754 binary64 values, as predict_proba     *)
(* returns them and as Python compares them with the literals 0.1 .. 0.9. *)
(* A value v in [0,1] is held exactly as <<hi, lo>> with                  *)
(*     v = (hi * 2^28 + lo) / 2^56,                                       *)
(* which covers every binary64 value in [2^-4, 1] (and 0).                *)
(* Estimated CLV is held in whole currency units.                         *)
(***************************************************************************)
EXTENDS Integers, Sequences, FiniteSets, TLC

VARIABLES
    pc,             \* "startup" until the module-level load ran, then "serving",
                    \* and "answered" while a request's answer is being sent
    churn_model,    \* module global: None, or the loaded classifier
    clv_model,      \* module global: None, or the loaded regressor
    request,        \* the request being answered: [endpoint, body]
    response,       \* the answer to it: [status, body]
    calls,          \* the components the request invoked, in order
    churn_prob,     \* decision ladders: the probability under evaluation
    estimated_clv,  \* decision ladders: the value under evaluation
    single,         \* the fields /predict builds for (churn_prob, estimated_clv)
    batched         \* the dict /batch-predict builds for the same pair

vars == <<pc, churn_model, clv_model, request, response, calls,
          churn_prob, estimated_clv, single, batched>>

(***************************************************************************)
(* Bounds of the model.                                                    *)
(***************************************************************************)
\* probabilities within this many units of 2^-56 of each anchor are inputs
NeighbourSpan == 16
\* CLV values within this many units of each value threshold are inputs
ClvSpan == 2
\* longest /batch-predict body
MaxBatch == 3

(***************************************************************************)
(* binary64 values in [0,1]                                                *)
(***************************************************************************)
Limb == 2^28

\* Python's float `<` and `>`: exact comparison of the two values
Lt(a, b) == a[1] < b[1] \/ (a[1] = b[1] /\ a[2] < b[2])

Gt(a, b) == Lt(b, a)

\* spacing of binary64 values around a, in units of 2^-56
Ulp(a) ==
    IF a[1] >= 2^27 THEN 8
    ELSE IF a[1] >= 2^26 THEN 4
    ELSE IF a[1] >= 2^25 THEN 2
    ELSE 1

IsDouble(a) ==
    /\ a[1] \in 0..Limb
    /\ a[2] \in 0..(Limb - 1)
    /\ (a[1] = Limb => a[2] = 0)
    /\ a[2] % Ulp(a) = 0

\* a moved by j units of 2^-56 (|j| < 2^28)
Shift(a, j) ==
    LET lo == a[2] + j
    IN  IF lo < 0 THEN <<a[1] - 1, lo + Limb>>
        ELSE IF lo >= Limb THEN <<a[1] + 1, lo - Limb>>
        ELSE <<a[1], lo>>

\* the float literals of the source, as the binary64 values Python reads them
F01 == <<26843545, 161061274>>     \* 0.1 = 0.1000000000000000055511151231257827
F02 == <<53687091, 53687092>>      \* 0.2 = 0.2000000000000000111022302462515654
F03 == <<80530636, 214748364>>     \* 0.3 = 0.2999999999999999888977697537484346
F04 == <<107374182, 107374184>>    \* 0.4 = 0.4000000000000000222044604925031308
F07 == <<187904819, 53687088>>     \* 0.7 = 0.6999999999999999555910790149937384
F08 == <<214748364, 214748368>>    \* 0.8 = 0.8000000000000000444089209850062616
F09 == <<241591910, 107374184>>    \* 0.9 = 0.9000000000000000222044604925031308

Zero == <<0, 0>>
One == <<Limb, 0>>
Half == <<2^27, 0>>
F06 == <<161061273, 161061272>>    \* the binary64 value written 0.6

Anchors == {F01, F02, F03, F04, Half, F06, F07, F08, F09}

\* the probabilities the ladders are evaluated on
Probs ==
    {Zero, One, <<2^24, 0>>, <<2^26, 0>>, <<3 * 2^26, 0>>}
    \cup {d \in {Shift(a, j) : a \in Anchors, j \in (0 - NeighbourSpan)..NeighbourSpan} :
            IsDouble(d)}

\* the CLV values the ladders are evaluated on
Clvs ==
    {0 - 12000, 0, 12000, 35000, 50000}
    \cup {30000 + d : d \in (0 - ClvSpan)..ClvSpan}
    \cup {40000 + d : d \in (0 - ClvSpan)..ClvSpan}

(***************************************************************************)
(* Decision ladders                                                        *)
(***************************************************************************)
CRITICAL == "CRITICAL: High-value customer at severe risk. Immediate executive intervention required. Offer premium retention package."
HIGH_PRIORITY == "HIGH PRIORITY: Customer likely to churn. Assign dedicated account manager and offer targeted incentives within 24 hours."
PROACTIVE == "PROACTIVE: Valuable customer showing warning signs. Schedule personal check-in call and present loyalty rewards."
MONITOR == "MONITOR: Elevated churn risk detected. Increase engagement through personalized offers and service improvements."
NURTURE == "NURTURE: High-value loyal customer. Continue VIP treatment and explore upsell opportunities."
MAINTAIN == "MAINTAIN: Healthy customer relationship. Continue standard engagement and periodic satisfaction surveys."

get_recommendation_unified(p, clv) ==
    IF Gt(p, F04)
    THEN IF clv > 30000 THEN CRITICAL ELSE HIGH_PRIORITY
    ELSE IF Gt(p, F02)
    THEN IF clv > 30000 THEN PROACTIVE ELSE MONITOR
    ELSE IF clv > 30000 THEN NURTURE ELSE MAINTAIN

get_recommendation_shifted(p, clv) ==
    IF Gt(p, F04) \/ p = F04
    THEN IF clv > 30000 THEN CRITICAL ELSE HIGH_PRIORITY
    ELSE IF Gt(p, F02)
    THEN IF clv > 30000 THEN PROACTIVE ELSE MONITOR
    ELSE IF clv > 40000 THEN NURTURE ELSE MAINTAIN

get_recommendation(p, clv) ==
    IF Gt(p, F04)
    THEN IF clv > 30000 THEN CRITICAL ELSE HIGH_PRIORITY
    ELSE IF Gt(p, F02)
    THEN IF clv > 30000 THEN PROACTIVE ELSE MONITOR
    ELSE IF clv > 40000 THEN NURTURE ELSE MAINTAIN

get_confidence_level_inclusive(p) ==
    IF Lt(p, F01) \/ Gt(p, F09) THEN "Very High"
    ELSE IF Lt(p, F02) \/ p = F02 \/ Gt(p, F08) THEN "High"
    ELSE IF Lt(p, F03) \/ Gt(p, F07) THEN "Moderate"
    ELSE "Low"

get_confidence_level(p) ==
    IF Lt(p, F01) \/ Gt(p, F09) THEN "Very High"
    ELSE IF Lt(p, F02) \/ Gt(p, F08) THEN "High"
    ELSE IF Lt(p, F03) \/ Gt(p, F07) THEN "Moderate"
    ELSE "Low"

\* /predict, lines 196-202
risk_level(p) ==
    IF Gt(p, F04) THEN "High"
    ELSE IF Gt(p, F02) THEN "Medium"
    ELSE "Low"

risk_level_batch_inclusive(p) ==
    IF Gt(p, F04) \/ p = F04 THEN "High"
    ELSE IF Gt(p, F02) THEN "Medium"
    ELSE "Low"

\* /batch-predict, line 244
risk_level_batch(p) ==
    IF Gt(p, F04) THEN "High" ELSE IF Gt(p, F02) THEN "Medium" ELSE "Low"

\* /predict, lines 196-216: the PredictionResponse built from the two scores
PredictionResponse(p, clv) ==
    [churn_probability |-> p,
     churn_risk |-> risk_level(p),
     estimated_clv |-> clv,
     recommendation |-> get_recommendation(p, clv),
     confidence |-> get_confidence_level(p)]

\* /batch-predict, lines 244-252: the dict appended for one customer
batch_result(p, clv) ==
    [churn_probability |-> p,
     churn_risk |-> risk_level_batch(p),
     estimated_clv |-> clv,
     recommendation |-> get_recommendation(p, clv),
     confidence |-> get_confidence_level(p)]

(***************************************************************************)
(* Request boundary: CustomerData                                          *)
(***************************************************************************)
\* the example body of CustomerData.Config
base ==
    [accountLength |-> 128, state |-> "CA", areaCode |-> "415",
     internationalPlan |-> "no", voiceMailPlan |-> "yes",
     numberOfVmailMessages |-> 25, totalDayCalls |-> 110, totalEveCalls |-> 85,
     totalNightCalls |-> 95, totalIntlCalls |-> 3, customerServiceCalls |-> 1]

CountFields ==
    {"accountLength", "numberOfVmailMessages", "totalDayCalls", "totalEveCalls",
     "totalNightCalls", "totalIntlCalls", "customerServiceCalls"}

intlFlag == [base EXCEPT !.internationalPlan = "maybe"]
vmailFlag == [base EXCEPT !.voiceMailPlan = "Y"]
stateShort == [base EXCEPT !.state = "C"]

\* the request bodies sent to /predict
Records ==
    {base, intlFlag, vmailFlag, stateShort,
     [base EXCEPT !.state = "CAL"],
     [base EXCEPT !.areaCode = "41"],
     [base EXCEPT !.areaCode = "4155"]}
    \cup {[base EXCEPT ![f] = 0 - 1] : f \in CountFields}

\* the items of the bodies sent to /batch-predict
BatchRecords == {base, intlFlag, stateShort}

RECURSIVE SeqsUpTo(_, _)
SeqsUpTo(S, n) ==
    IF n = 0 THEN {<<>>}
    ELSE LET shorter == SeqsUpTo(S, n - 1)
         IN  shorter \cup {Append(q, x) : q \in {r \in shorter : Len(r) = n - 1}, x \in S}

Batches == SeqsUpTo(BatchRecords, MaxBatch)

\* Field constraints of CustomerData: whether the framework builds the object
CustomerData(c) ==
    /\ c.accountLength >= 0
    /\ Len(c.state) >= 2 /\ Len(c.state) <= 2
    /\ Len(c.areaCode) >= 3 /\ Len(c.areaCode) <= 3
    /\ c.numberOfVmailMessages >= 0
    /\ c.totalDayCalls >= 0
    /\ c.totalEveCalls >= 0
    /\ c.totalNightCalls >= 0
    /\ c.totalIntlCalls >= 0
    /\ c.customerServiceCalls >= 0

\* the one-row DataFrame, as its columns in order
prepare_input_data(customer) ==
    << <<"Account length", customer.accountLength>>,
       <<"International plan", customer.internationalPlan>>,
       <<"Voice mail plan", customer.voiceMailPlan>>,
       <<"Number vmail messages", customer.numberOfVmailMessages>>,
       <<"Total day calls", customer.totalDayCalls>>,
       <<"Total eve calls", customer.totalEveCalls>>,
       <<"Total night calls", customer.totalNightCalls>>,
       <<"Total intl calls", customer.totalIntlCalls>>,
       <<"Customer service calls", customer.customerServiceCalls>>,
       <<"State", customer.state>>,
       <<"Area code", customer.areaCode>> >>

(***************************************************************************)
(* The two model artifacts.  A loaded model is a fixed function of the     *)
(* DataFrame it is given: it returns a score or raises.                    *)
(***************************************************************************)
FeatureVectors == {prepare_input_data(c) : c \in {r \in Records : CustomerData(r)}}

ChurnOutcomes ==
    {[raised |-> FALSE, value |-> v, error |-> ""] : v \in {F02, F04, Shift(F04, 4)}}
    \cup {[raised |-> TRUE, value |-> Zero, error |-> "could not convert string to float"]}

ClvOutcomes ==
    {[raised |-> FALSE, value |-> v, error |-> ""] : v \in {30000, 40001}}
    \cup {[raised |-> TRUE, value |-> 0, error |-> "X has 10 features, but 11 expected"]}

NoModel == [kind |-> "None", table |-> <<>>]

ChurnModels == {[kind |-> "model", table |-> t] : t \in [FeatureVectors -> ChurnOutcomes]}

ClvModels == {[kind |-> "model", table |-> t] : t \in [FeatureVectors -> ClvOutcomes]}

\* `x is None`
IsNone(x) == x.kind = "None"

\* bool(x): None is falsy, a loaded estimator is truthy
Truthy(x) == x.kind # "None"

\* what joblib.load does with one file: the model, or an exception
LoadResults(models) ==
    {[raised |-> FALSE, model |-> m] : m \in models}
    \cup {[raised |-> TRUE, model |-> NoModel]}

load_models_keep_first(first, second) ==
    IF first.raised
    THEN [churn_model |-> NoModel, clv_model |-> NoModel]
    ELSE IF second.raised
    THEN [churn_model |-> first.model, clv_model |-> NoModel]
    ELSE [churn_model |-> first.model, clv_model |-> second.model]

\* the module-level try/except: the globals it leaves bound
load_models(first, second) ==
    IF first.raised
    THEN [churn_model |-> NoModel, clv_model |-> NoModel]
    ELSE IF second.raised
    THEN [churn_model |-> NoModel, clv_model |-> NoModel]
    ELSE [churn_model |-> first.model, clv_model |-> second.model]

\* churn_model.predict_proba(input_data)[0][1]
predict_proba(model, input_data) ==
    IF IsNone(model)
    THEN [raised |-> TRUE, value |-> Zero,
          error |-> "'NoneType' object has no attribute 'predict_proba'"]
    ELSE model.table[input_data]

\* clv_model.predict(input_data)[0]
predict(model, input_data) ==
    IF IsNone(model)
    THEN [raised |-> TRUE, value |-> 0,
          error |-> "'NoneType' object has no attribute 'predict'"]
    ELSE model.table[input_data]

(***************************************************************************)
(* Handlers.  Each returns the HTTP answer and the components it invoked.  *)
(***************************************************************************)
Answer(status, detail, body, invoked) ==
    [status |-> status, detail |-> detail, body |-> body, calls |-> invoked]

models_missing_never ==
    FALSE

\* `churn_model is None or clv_model is None`
models_missing ==
    IsNone(churn_model) \/ IsNone(clv_model)

DecisionCalls == <<"risk_level", "get_recommendation", "get_confidence_level">>

\* the try block of /predict: the exception raised, or the response built
predict_try(customer) ==
    LET input_data == prepare_input_data(customer)
        scored == predict_proba(churn_model, input_data)
        valued == predict(clv_model, input_data)
        c1 == <<"prepare_input_data", "churn_model.predict_proba">>
        c2 == Append(c1, "clv_model.predict")
    IN  IF scored.raised
        THEN [raised |-> TRUE, error |-> scored.error, result |-> <<>>, calls |-> c1]
        ELSE IF valued.raised
        THEN [raised |-> TRUE, error |-> valued.error, result |-> <<>>, calls |-> c2]
        ELSE [raised |-> FALSE, error |-> "",
              result |-> PredictionResponse(scored.value, valued.value),
              calls |-> c2 \o DecisionCalls]

predict_customer(customer) ==
    IF models_missing
    THEN Answer(503, "ML models not loaded. Please ensure model files are available.",
                <<>>, <<>>)
    ELSE LET t == predict_try(customer)
         IN  IF t.raised
             THEN Answer(500, "Prediction error: " \o t.error, <<>>, t.calls)
             ELSE Answer(200, "", t.result, t.calls)

\* one pass of the loop body of /batch-predict
batch_step(customer) ==
    LET input_data == prepare_input_data(customer)
        scored == predict_proba(churn_model, input_data)
        valued == predict(clv_model, input_data)
        c1 == <<"prepare_input_data", "churn_model.predict_proba">>
        c2 == Append(c1, "clv_model.predict")
    IN  IF scored.raised
        THEN [raised |-> TRUE, error |-> scored.error, result |-> <<>>, calls |-> c1]
        ELSE IF valued.raised
        THEN [raised |-> TRUE, error |-> valued.error, result |-> <<>>, calls |-> c2]
        ELSE [raised |-> FALSE, error |-> "",
              result |-> batch_result(scored.value, valued.value),
              calls |-> c2 \o DecisionCalls]

RECURSIVE batch_loop_reversed(_, _, _, _)
batch_loop_reversed(customers, i, results, invoked) ==
    IF i > Len(customers)
    THEN [raised |-> FALSE, error |-> "", results |-> results, calls |-> invoked]
    ELSE LET t == batch_step(customers[i])
         IN  IF t.raised
             THEN [raised |-> TRUE, error |-> t.error, results |-> results,
                   calls |-> invoked \o t.calls]
             ELSE batch_loop_reversed(customers, i + 1, <<t.result>> \o results,
                                      invoked \o t.calls)

RECURSIVE batch_loop_skipping(_, _, _, _)
batch_loop_skipping(customers, i, results, invoked) ==
    IF i > Len(customers)
    THEN [raised |-> FALSE, error |-> "", results |-> results, calls |-> invoked]
    ELSE LET t == batch_step(customers[i])
         IN  IF t.raised
             THEN batch_loop_skipping(customers, i + 1, results, invoked \o t.calls)
             ELSE batch_loop_skipping(customers, i + 1, Append(results, t.result),
                                      invoked \o t.calls)

\* the for loop of /batch-predict from item i on, inside the try block
RECURSIVE batch_loop(_, _, _, _)
batch_loop(customers, i, results, invoked) ==
    IF i > Len(customers)
    THEN [raised |-> FALSE, error |-> "", results |-> results, calls |-> invoked]
    ELSE LET t == batch_step(customers[i])
         IN  IF t.raised
             THEN [raised |-> TRUE, error |-> t.error, results |-> results,
                   calls |-> invoked \o t.calls]
             ELSE batch_loop(customers, i + 1, Append(results, t.result),
                             invoked \o t.calls)

batch_predict(customers) ==
    IF IsNone(churn_model) \/ IsNone(clv_model)
    THEN Answer(503, "ML models not loaded.", <<>>, <<>>)
    ELSE LET t == batch_loop(customers, 1, <<>>, <<>>)
         IN  IF t.raised
             THEN Answer(500, "Batch prediction error: " \o t.error, <<>>, t.calls)
             ELSE Answer(200, "",
                         [predictions |-> t.results, count |-> Len(t.results)],
                         t.calls)

\* GET /online
root ==
    [status |-> "online",
     service |-> "TeleLink Customer Analytics API",
     version |-> "2.0.0",
     models_loaded |-> (~IsNone(churn_model)) /\ (~IsNone(clv_model))]

\* GET /health
health_check ==
    [status |-> IF Truthy(churn_model) /\ Truthy(clv_model) THEN "healthy" ELSE "degraded",
     churn_model |-> IF Truthy(churn_model) THEN "loaded" ELSE "not loaded",
     clv_model |-> IF Truthy(clv_model) THEN "loaded" ELSE "not loaded",
     api_version |-> "2.0.0"]

\* the framework's answer to a body that CustomerData rejects
Unprocessable == Answer(422, "validation error", <<>>, <<>>)

(***************************************************************************)
(* The service                                                             *)
(***************************************************************************)
NoDecision ==
    /\ churn_prob = Zero
    /\ estimated_clv = 0
    /\ single = <<>>
    /\ batched = <<>>

Init ==
    /\ pc = "startup"
    /\ churn_model = NoModel
    /\ clv_model = NoModel
    /\ request = [endpoint |-> "", body |-> <<>>]
    /\ response = [status |-> 0, detail |-> "", body |-> <<>>]
    /\ calls = <<>>
    /\ NoDecision

Reply(endpoint, body, answer) ==
    /\ request' = [endpoint |-> endpoint, body |-> body]
    /\ response' = [status |-> answer.status, detail |-> answer.detail, body |-> answer.body]
    /\ calls' = answer.calls
    /\ pc' = "answered"
    /\ UNCHANGED <<churn_model, clv_model, churn_prob, estimated_clv, single, batched>>

\* import of the module: the two joblib.load calls and the except clause
LoadModels ==
    /\ pc = "startup"
    /\ \E first \in LoadResults(ChurnModels), second \in LoadResults(ClvModels) :
          LET bound == load_models(first, second)
          IN  /\ churn_model' = bound.churn_model
              /\ clv_model' = bound.clv_model
    /\ pc' = "serving"
    /\ UNCHANGED <<request, response, calls, churn_prob, estimated_clv, single, batched>>

Online ==
    /\ pc = "serving"
    /\ Reply("/online", <<>>, Answer(200, "", root, <<>>))

Health ==
    /\ pc = "serving"
    /\ Reply("/health", <<>>, Answer(200, "", health_check, <<>>))

Predict ==
    /\ pc = "serving"
    /\ \E customer \in Records :
          Reply("/predict", customer,
                IF CustomerData(customer) THEN predict_customer(customer) ELSE Unprocessable)

BatchPredict ==
    /\ pc = "serving"
    /\ \E customers \in Batches :
          Reply("/batch-predict", customers,
                IF \A i \in 1..Len(customers) : CustomerData(customers[i])
                THEN batch_predict(customers)
                ELSE Unprocessable)

\* the answer is sent and the request is over; the process waits for the next one
Complete ==
    /\ pc = "answered"
    /\ pc' = "serving"
    /\ request' = [endpoint |-> "", body |-> <<>>]
    /\ response' = [status |-> 0, detail |-> "", body |-> <<>>]
    /\ calls' = <<>>
    /\ UNCHANGED <<churn_model, clv_model, churn_prob, estimated_clv, single, batched>>

Next == LoadModels \/ Online \/ Health \/ Predict \/ BatchPredict \/ Complete

Spec == Init /\ [][Next]_vars

(***************************************************************************)
(* The decision ladders on their own: every probability and value of the  *)
(* input sets is put through what /predict and /batch-predict build.       *)
(***************************************************************************)
InitDecision ==
    /\ pc = "input"
    /\ churn_prob \in Probs
    /\ estimated_clv \in Clvs
    /\ single = <<>>
    /\ batched = <<>>
    /\ churn_model = NoModel
    /\ clv_model = NoModel
    /\ request = [endpoint |-> "", body |-> <<>>]
    /\ response = [status |-> 0, detail |-> "", body |-> <<>>]
    /\ calls = <<>>

Decide ==
    /\ pc = "input"
    /\ single' = PredictionResponse(churn_prob, estimated_clv)
    /\ batched' = batch_result(churn_prob, estimated_clv)
    /\ pc' = "decided"
    /\ UNCHANGED <<churn_model, clv_model, request, response, calls, churn_prob, estimated_clv>>

NextDecision == Decide

SpecDecision == InitDecision /\ [][NextDecision]_vars

(***************************************************************************)
(* Properties of the decision ladders (SpecDecision)                       *)
(***************************************************************************)
Le(a, b) == Lt(a, b) \/ a = b

Decided == pc = "decided"

\* C1: for every probability p the risk tier is one of Low, Medium, High, with
\* High iff p > 0.4, Medium iff 0.2 < p <= 0.4 and Low iff p <= 0.2 (so 0.4 is
\* Medium and 0.2 is Low), and /predict and /batch-predict give the same tier.
C1_RiskTier ==
    Decided =>
        LET p == churn_prob
            tier == single.churn_risk
        IN  /\ tier \in {"Low", "Medium", "High"}
            /\ tier = "High" <=> Lt(F04, p)
            /\ tier = "Medium" <=> (Lt(F02, p) /\ Le(p, F04))
            /\ tier = "Low" <=> Le(p, F02)
            /\ p = F04 => tier = "Medium"
            /\ p = F02 => tier = "Low"
            /\ batched.churn_risk = tier

C1_Witness ==
    /\ Decided
    /\ churn_prob = F04
    /\ single.churn_risk = "Medium"
    /\ batched.churn_risk = "Medium"

\* the binary64 value nearest to x (ties to the even significand)
RoundToDouble(x) ==
    LET u == Ulp(x)
        q == x[2] \div u
        r == x[2] % u
        up == (2 * r > u) \/ (2 * r = u /\ q % 2 = 1)
        lo == (IF up THEN q + 1 ELSE q) * u
    IN  IF lo >= Limb THEN <<x[1] + 1, lo - Limb>> ELSE <<x[1], lo>>

\* Python's `1 - p` on floats: the exact difference, rounded
OneMinus(p) ==
    RoundToDouble(IF p[2] = 0 THEN <<Limb - p[1], 0>> ELSE <<Limb - p[1] - 1, Limb - p[2]>>)

\* C2: for every probability p, get_confidence_level(p) equals
\* get_confidence_level(1 - p), the threshold values 0.1 .. 0.9 included.
C2_Symmetric ==
    Decided => single.confidence = get_confidence_level(OneMinus(churn_prob))

\* C3: get_recommendation returns, for every p and every clv (negative ones
\* too), one of exactly six non-empty catalog strings, each of them returned
\* for some input, and the string is fixed by the band of p and by whether clv
\* exceeds the band's threshold (30000 in the two upper bands, 40000 in the low one).
Catalog == {CRITICAL, HIGH_PRIORITY, PROACTIVE, MONITOR, NURTURE, MAINTAIN}

C3_Recommendation ==
    /\ Cardinality(Catalog) = 6
    /\ \A t \in Catalog : Len(t) > 0
    /\ {get_recommendation(p, c) : p \in Probs, c \in Clvs} = Catalog
    /\ Decided =>
        LET p == churn_prob
            clv == estimated_clv
            rec == single.recommendation
        IN  /\ rec \in Catalog
            /\ Lt(F04, p) /\ clv > 30000 => rec = CRITICAL
            /\ Lt(F04, p) /\ clv <= 30000 => rec = HIGH_PRIORITY
            /\ Lt(F02, p) /\ Le(p, F04) /\ clv > 30000 => rec = PROACTIVE
            /\ Lt(F02, p) /\ Le(p, F04) /\ clv <= 30000 => rec = MONITOR
            /\ Le(p, F02) /\ clv > 40000 => rec = NURTURE
            /\ Le(p, F02) /\ clv <= 40000 => rec = MAINTAIN
            /\ batched.recommendation = rec

C3_Witness ==
    /\ Decided
    /\ estimated_clv < 0
    /\ Le(churn_prob, F02)
    /\ single.recommendation = MAINTAIN

\* C8: in what /predict and /batch-predict build, the risk tier and the
\* recommendation come from the same band: High with CRITICAL or HIGH PRIORITY,
\* Medium with PROACTIVE or MONITOR, Low with NURTURE or MAINTAIN.
SameBand(result) ==
    /\ result.churn_risk = "High" <=> result.recommendation \in {CRITICAL, HIGH_PRIORITY}
    /\ result.churn_risk = "Medium" <=> result.recommendation \in {PROACTIVE, MONITOR}
    /\ result.churn_risk = "Low" <=> result.recommendation \in {NURTURE, MAINTAIN}

C8_SameBand ==
    Decided => SameBand(single) /\ SameBand(batched)

C8_Witness ==
    /\ Decided
    /\ churn_prob = F04
    /\ estimated_clv > 30000
    /\ single.churn_risk = "Medium"
    /\ single.recommendation = PROACTIVE
    /\ batched.recommendation = PROACTIVE

\* C9: the confidence ladder, first match winning and every comparison strict:
\* Very High iff p < 0.1 or p > 0.9; High iff 0.1 <= p < 0.2 or 0.8 < p <= 0.9;
\* Moderate iff 0.2 <= p < 0.3 or 0.7 < p <= 0.8; Low iff 0.3 <= p <= 0.7.
\* At p = 0.2 the risk is Low and the confidence Moderate.
C9_Confidence ==
    Decided =>
        LET p == churn_prob
            c == single.confidence
        IN  /\ c = "Very High" <=> (Lt(p, F01) \/ Lt(F09, p))
            /\ c = "High" <=> ((Le(F01, p) /\ Lt(p, F02)) \/ (Lt(F08, p) /\ Le(p, F09)))
            /\ c = "Moderate" <=> ((Le(F02, p) /\ Lt(p, F03)) \/ (Lt(F07, p) /\ Le(p, F08)))
            /\ c = "Low" <=> (Le(F03, p) /\ Le(p, F07))
            /\ p = F02 => single.churn_risk = "Low" /\ c = "Moderate"
            /\ batched.confidence = c

C9_Witness ==
    /\ Decided
    /\ churn_prob = F02
    /\ single.churn_risk = "Low"
    /\ single.confidence = "Moderate"

(***************************************************************************)
(* Properties of the service (Spec)                                        *)
(***************************************************************************)
Scoring == pc = "answered" /\ request.endpoint \in {"/predict", "/batch-predict"}

\* the customer records of the request being answered
Items == IF request.endpoint = "/predict" THEN <<request.body>> ELSE request.body

ModelsAbsent == IsNone(churn_model) \/ IsNone(clv_model)

BodyAccepted == \A i \in 1..Len(Items) : CustomerData(Items[i])

\* C4 as stated: once a model failed to load, every call to /predict and
\* /batch-predict fails with 503 before the Normalizer, a model or the Decision
\* Engine is invoked.
C4_AlwaysUnavailable ==
    Scoring /\ ModelsAbsent =>
        /\ response.status = 503
        /\ calls = <<>>
        /\ response.body = <<>>

\* C4, amended: once a model failed to load, a call to /predict or
\* /batch-predict invokes no Normalizer, model or Decision Engine and returns no
\* prediction; it fails with 503 when its body passes CustomerData validation,
\* and with 422 at the boundary when it does not.
C4_Unavailable ==
    Scoring /\ ModelsAbsent =>
        /\ calls = <<>>
        /\ response.body = <<>>
        /\ BodyAccepted => response.status = 503
        /\ ~BodyAccepted => response.status = 422

C4_Witness ==
    /\ Scoring
    /\ ModelsAbsent
    /\ request.endpoint = "/batch-predict"
    /\ Len(request.body) >= 2
    /\ response.status = 503
    /\ calls = <<>>

\* the invariant declared for a CustomerRecord
RecordInvariant(c) ==
    /\ \A f \in CountFields : c[f] >= 0
    /\ c.internationalPlan \in {"yes", "no"}
    /\ c.voiceMailPlan \in {"yes", "no"}
    /\ Len(c.state) = 2
    /\ Len(c.areaCode) = 3

\* C5: a record that violates the record invariant (a negative count, a plan
\* flag other than "yes" or "no", a state not of 2 characters, an area code not
\* of 3) is rejected at the boundary and reaches no Normalizer, model or
\* Decision Engine.
C5_Rejected ==
    Scoring /\ (\E i \in 1..Len(Items) : ~RecordInvariant(Items[i])) =>
        /\ response.status = 422
        /\ calls = <<>>

\* whether a model raises on the customer, and the message it raises with
ScoreFails(c) ==
    \/ churn_model.table[prepare_input_data(c)].raised
    \/ clv_model.table[prepare_input_data(c)].raised

Cause(c) ==
    IF churn_model.table[prepare_input_data(c)].raised
    THEN churn_model.table[prepare_input_data(c)].error
    ELSE clv_model.table[prepare_input_data(c)].error

\* C6: with both models loaded and no scoring failure, /batch-predict on n
\* records returns n predictions and count = n, and predictions[i] carries the
\* five fields /predict returns for input[i] alone.
C6_BatchPointwise ==
    ( /\ pc = "answered"
      /\ request.endpoint = "/batch-predict"
      /\ ~ModelsAbsent
      /\ BodyAccepted
      /\ \A i \in 1..Len(request.body) : ~ScoreFails(request.body[i]) ) =>
        /\ response.status = 200
        /\ Len(response.body.predictions) = Len(request.body)
        /\ response.body.count = Len(request.body)
        /\ \A i \in 1..Len(request.body) :
              LET alone == predict_customer(request.body[i])
                  item == response.body.predictions[i]
              IN  /\ alone.status = 200
                  /\ item.churn_probability = alone.body.churn_probability
                  /\ item.churn_risk = alone.body.churn_risk
                  /\ item.estimated_clv = alone.body.estimated_clv
                  /\ item.recommendation = alone.body.recommendation
                  /\ item.confidence = alone.body.confidence

C6_Witness ==
    /\ pc = "answered"
    /\ request.endpoint = "/batch-predict"
    /\ response.status = 200
    /\ Len(request.body) >= 2
    /\ response.body.count = Len(request.body)
    /\ response.body.predictions[1] # response.body.predictions[2]
    /\ request.body[1] # request.body[2]

Count(seq, x) == Cardinality({i \in 1..Len(seq) : seq[i] = x})

FirstFailure == CHOOSE k \in 1..Len(Items) :
    /\ ScoreFails(Items[k])
    /\ \A j \in 1..(k - 1) : ~ScoreFails(Items[j])

\* C7: with both models loaded, when a model invocation fails for the record of
\* /predict or for an item of /batch-predict, the request ends with 500 carrying
\* the cause's message, no model is invoked again after the failure, and no
\* prediction is returned, those computed for earlier items included.
C7_PredictionFailed ==
    ( /\ Scoring
      /\ ~ModelsAbsent
      /\ BodyAccepted
      /\ \E i \in 1..Len(Items) : ScoreFails(Items[i]) ) =>
        /\ response.status = 500
        /\ response.detail =
              (IF request.endpoint = "/predict"
               THEN "Prediction error: " ELSE "Batch prediction error: ")
              \o Cause(Items[FirstFailure])
        /\ response.body = <<>>
        /\ Count(calls, "churn_model.predict_proba") = FirstFailure
        /\ Count(calls, "clv_model.predict") \in {FirstFailure - 1, FirstFailure}
        /\ Count(calls, "get_recommendation") = FirstFailure - 1

C7_Witness ==
    /\ Scoring
    /\ request.endpoint = "/batch-predict"
    /\ ~ModelsAbsent
    /\ Len(request.body) >= 2
    /\ BodyAccepted
    /\ ~ScoreFails(request.body[1])
    /\ ScoreFails(request.body[2])
    /\ response.status = 500
    /\ response.body = <<>>

\* C10: after the startup load the two handles are both loaded or both absent
\* (a failure of either load leaves both absent), no handler reassigns them,
\* /health never reports one as "loaded" and the other as "not loaded", and
\* /online's models_loaded is true exactly when /health's status is "healthy".
HandlesAgree ==
    /\ IsNone(churn_model) <=> IsNone(clv_model)
    /\ health_check.churn_model = health_check.clv_model
    /\ root.models_loaded <=> health_check.status = "healthy"
    /\ (pc = "answered" /\ request.endpoint = "/health") =>
          response.body.churn_model = response.body.clv_model

C10_Handles ==
    [][ /\ HandlesAgree'
        /\ pc # "startup" => UNCHANGED <<churn_model, clv_model>> ]_vars

C10_Witness ==
    /\ pc = "answered"
    /\ request.endpoint = "/health"
    /\ response.body.status = "degraded"
    /\ response.body.churn_model = "not loaded"
    /\ response.body.clv_model = "not loaded"

====
